---- MODULE Spec2Model ----
(***************************************************************************)
(* dimland: single-instance daemon control plane (src/main.rs).            *)
(*                                                                         *)
(* The specifications of this module:                                      *)
(*   SpecArgs    the Configuration Store merge, set_args, applied to any   *)
(*               sequence of parsed updates;                               *)
(*   Spec        the launches of the program as processes racing on the    *)
(*               endpoint file (probe, forward, stop, cleanup, bind,       *)
(*               listener loop, signal handler);                           *)
(*   SpecRender  one daemon process seen from inside: the listener thread  *)
(*               and the render thread sharing ARGS and FLAG, and the      *)
(*               compositor's output callbacks on the view registry;       *)
(*   SpecStale   Spec with launches one at a time and processes that may   *)
(*               be killed, under weak fairness of every process;          *)
(*   SpecRenderFair  the two threads of SpecRender under weak fairness;    *)
(*   SpecBuffer  create_buffer applied by a render pass to a view of any   *)
(*               small size under any radius of the model.                 *)
(*                                                                         *)
(* Numbers: an f32 opacity is kept in tenths (0.5 is 5, 0.9 is 9, 1.0 is   *)
(* 10); NaN is the one f32 that every ordered comparison rejects.          *)
(* Option<T>: None is <<>>, Some(x) is <<x>>.                              *)
(***************************************************************************)
EXTENDS Integers, Sequences, FiniteSets, TLC

\* ------------------------------------------------------------ bounds
\* Number of process ids a behaviour of Spec may launch.
NProcs == 3
\* Connections a listener may have pending (accepted or not) at once.
MaxBacklog == 2

\* Events (output, configure, closed) the compositor sends in a behaviour of
\* SpecRender.
MaxEvents == 3
\* Client sessions a behaviour of SpecRender delivers to the daemon.
MaxSessions == 2
\* Largest width and height of the view SpecBuffer renders.
MaxSide == 2

\* --------------------------------------------------- program constants
\* _main: `if i > 10`.
WARMUP == 10
DEFAULT_ALPHA == 5
DEFAULT_RADIUS == 0
\* The clamp of set_args: 0.9.
ALPHA_MAX == 9
\* f32 NaN (a command line may carry it: "--alpha nan" parses as an f32).
NaN == -1

None == <<>>
Some(x) == <<x>>
IsSome(o) == o # <<>>
Unwrap(o) == o[1]

\* f32 `a > b`: false as soon as one side is NaN.
FGt(a, b) == a # NaN /\ b # NaN /\ a > b
\* f32 `a <= b`: false as soon as one side is NaN.
FLe(a, b) == a # NaN /\ b # NaN /\ a <= b
\* f32::min: the other operand when one is NaN.
FMin(a, b) == IF a = NaN THEN b ELSE IF b = NaN THEN a ELSE IF a <= b THEN a ELSE b

\* Opacities, radii and output names the command lines of the model carry.
Alphas == {2, 10, NaN}
Radii == {0, 3}
OutputNames == {"A", "B"}

\* A parsed command line (struct DimlandArgs).
DimlandArgs ==
  [alpha: {None} \cup {Some(a) : a \in Alphas},
   allow_opaque: BOOLEAN,
   radius: {None} \cup {Some(r) : r \in Radii},
   output: {None} \cup {Some(o) : o \in OutputNames},
   detached: BOOLEAN,
   command: {None, Some("Stop")}]

\* The lazy_static ARGS before any set_args.
ARGS_INIT ==
  [alpha |-> Some(DEFAULT_ALPHA), allow_opaque |-> FALSE,
   radius |-> Some(DEFAULT_RADIUS), output |-> None,
   command |-> None, detached |-> FALSE]

\* ------------------------------------------------------------------
\* Command lines and control messages.
\*
\* A command line (env::args) is a sequence of tokens. A message is the text
\* written to the socket, kept as the sequence of tokens that were joined by
\* single spaces to make it: the stop client's literal "stop" is <<"stop">>.

\* str::split_whitespace on one token of the model's alphabet.
Words(tok) ==
  CASE tok = "A B" -> <<"A", "B">>
    [] tok = "stop\n" -> <<"stop">>
    [] tok = "" -> <<>>
    [] OTHER -> <<tok>>

RECURSIVE split_whitespace(_)
\* message.trim().split_whitespace().collect() (handle_ipc).
split_whitespace(message) ==
  IF message = <<>> THEN <<>>
  ELSE Words(Head(message)) \o split_whitespace(Tail(message))

\* env::args().collect::<Vec<String>>().join(" ") (main).
join_args(argv) == argv

\* <f32 as FromStr>: the opacity a token spells, None when it spells none.
parse_f32(tok) ==
  CASE tok = "0.2" -> Some(2)
    [] tok = "1.0" -> Some(10)
    [] tok = "nan" -> Some(NaN)
    [] OTHER -> None

\* <u32 as FromStr>.
parse_u32(tok) ==
  CASE tok = "0" -> Some(0)
    [] tok = "1" -> Some(1)
    [] tok = "3" -> Some(3)
    [] tok = "70000" -> Some(70000)
    [] OTHER -> None

\* What clap builds from no argument at all.
ARGS_EMPTY ==
  [alpha |-> None, allow_opaque |-> FALSE, radius |-> None, output |-> None,
   detached |-> FALSE, command |-> None]

ParseErr == [ok |-> FALSE, args |-> ARGS_EMPTY]

RECURSIVE parse_rest(_, _, _)
\* clap's parser for struct DimlandArgs over toks[i..], `acc` the fields seen.
parse_rest(toks, i, acc) ==
  IF i > Len(toks) THEN [ok |-> TRUE, args |-> acc]
  ELSE LET t == toks[i]
           hasVal == i + 1 <= Len(toks)
       IN
    CASE t \in {"-a", "--alpha"} ->
           IF IsSome(acc.alpha) \/ ~hasVal THEN ParseErr
           ELSE IF parse_f32(toks[i + 1]) = None THEN ParseErr
           ELSE parse_rest(toks, i + 2, [acc EXCEPT !.alpha = parse_f32(toks[i + 1])])
      [] t \in {"-r", "--radius"} ->
           IF IsSome(acc.radius) \/ ~hasVal THEN ParseErr
           ELSE IF parse_u32(toks[i + 1]) = None THEN ParseErr
           ELSE parse_rest(toks, i + 2, [acc EXCEPT !.radius = parse_u32(toks[i + 1])])
      [] t \in {"-o", "--output"} ->
           IF IsSome(acc.output) \/ ~hasVal THEN ParseErr
           ELSE parse_rest(toks, i + 2, [acc EXCEPT !.output = Some(toks[i + 1])])
      [] t = "--allow-opaque" ->
           IF acc.allow_opaque THEN ParseErr
           ELSE parse_rest(toks, i + 1, [acc EXCEPT !.allow_opaque = TRUE])
      [] t \in {"-d", "--detached"} ->
           IF acc.detached THEN ParseErr
           ELSE parse_rest(toks, i + 1, [acc EXCEPT !.detached = TRUE])
      [] t = "stop" ->
           \* the subcommand takes no argument of its own
           IF i = Len(toks) THEN [ok |-> TRUE, args |-> [acc EXCEPT !.command = Some("Stop")]]
           ELSE ParseErr
      [] OTHER -> ParseErr

\* DimlandArgs::try_parse_from(args): the first token is the binary's name.
try_parse_from(toks) == parse_rest(toks, 2, ARGS_EMPTY)

\* Mutants of set_args (plausible slips of the merge).
set_args_overwrite(store, args) ==
  [store EXCEPT !.alpha = args.alpha, !.radius = args.radius,
                !.output = args.output, !.command = args.command,
                !.detached = args.detached]

set_args_keep_output(store, args) ==
  [store EXCEPT
     !.alpha = IF IsSome(args.alpha)
               THEN Some(IF ~args.allow_opaque /\ FGt(Unwrap(args.alpha), ALPHA_MAX)
                         THEN ALPHA_MAX ELSE Unwrap(args.alpha))
               ELSE @,
     !.radius = IF IsSome(args.radius) THEN args.radius ELSE @,
     !.output = IF IsSome(args.output) THEN args.output ELSE @,
     !.command = IF IsSome(args.command) THEN args.command ELSE @,
     !.detached = args.detached \/ @]

\* set_args: the stored record after merging `args` into `store`.
set_args(store, args) ==
  [store EXCEPT
     !.alpha = IF IsSome(args.alpha)
               THEN Some(IF ~args.allow_opaque /\ FGt(Unwrap(args.alpha), ALPHA_MAX)
                         THEN ALPHA_MAX ELSE Unwrap(args.alpha))
               ELSE @,
     !.radius = IF IsSome(args.radius) THEN args.radius ELSE @,
     !.output = args.output,
     !.command = args.command,
     !.detached = args.detached]

\* ------------------------------------------------------------------
\* State.

Procs == 1 .. NProcs
\* The process SpecArgs and SpecRender study.
D == 1

\* The command lines a launch of the model may carry (each one clap accepts:
\* a command line it rejects ends in DimlandArgs::parse, before main's body).
CmdLines ==
  { <<"dimland">>,
    <<"dimland", "-a", "0.2">>,
    <<"dimland", "-o", "A B">>,
    <<"dimland", "-d">>,
    <<"dimland", "stop">> }

VARIABLES
  ARGS,        \* per process: the Configuration Store (lazy_static ARGS)
  FLAG,        \* per process: the wake latch (the bool of lazy_static FLAG)
  lastArgs,    \* history: the update of the last set_args of D (None before the first)
  prevARGS,    \* history: D's store right before its last set_args
  opaqueSeen,  \* history: some update applied to D's store carried --allow-opaque
  isDebug,     \* IS_DEBUG_BUILD of the binary
  pc,          \* per process: where it is in main / listen_for_ipc / handle_ipc
  ret,         \* per process: the call site cleanup() returns to
  argv,        \* per process: env::args()
  sockFile,    \* the endpoint path: 0 absent, p the socket file bound by p
  backlog,     \* per listener: its connections in accept order
  connTo,      \* per client: the process it connected to (0: none)
  exitCode,    \* per process: its exit status (-1 while it has none)
  exitPath,    \* history, per process: the statement that ended it
  fileAtExit,  \* history, per process: sockFile when it exited
  stopSent,    \* history, per process: a client wrote "stop" to it while it listened
  bound,       \* history, per process: its UnixListener::bind succeeded
  rpc,         \* D's render thread: where it is in _main's loop
  i,           \* _main's warm-up counter
  cursor,      \* rerender's position in self.views
  data,        \* DimlandData.alpha and .radius
  views,       \* DimlandData.views
  info,        \* OutputState: the outputs the toolkit knows, with name and logical size
  present,     \* the compositor's outputs (those it has announced and not removed)
  evq,         \* events the compositor sent that the event queue has not dispatched
  nEvents,     \* history: number of output events the compositor has sent
  nSessions,   \* history: number of client sessions SpecRender has delivered
  nCreated,    \* history: number of views built (DimlandView::new)
  nDropped,    \* history: number of views dropped (Drop for DimlandView)
  updatesSinceWake, \* history: set_args calls of the listener since the last wake (0, 1, 2: two or more)
  wokeAfter,   \* history: updatesSinceWake at the last wake
  passCfgs,    \* history: the (alpha, radius, output filter) each view of the current pass was regenerated with
  snapshot,    \* history: the store value _main's last get_args() returned
  stale,       \* history: the listener has written D's store since _main's last get_args()
  exit         \* DimlandData.exit

argsVars == <<ARGS, FLAG, lastArgs, prevARGS, opaqueSeen>>
procVars == <<isDebug, pc, ret, argv, sockFile, backlog, connTo, exitCode,
              exitPath, fileAtExit, stopSent, bound>>

renderVars == <<rpc, i, cursor, data, views, info, present, evq, nEvents, nSessions, nCreated,
                nDropped, updatesSinceWake, wokeAfter, passCfgs>>

auxVars == <<snapshot, stale, exit>>

vars == <<argsVars, procVars, renderVars, auxVars>>

\* main's local `args` (get_args() right after set_args(DimlandArgs::parse())).
args(p) == set_args(ARGS_INIT, try_parse_from(argv[p]).args)

\* p holds a bound, open listener socket (from a successful bind to its exit).
Listening(p) ==
  \/ pc[p] \in {"listen", "notify"}
  \/ pc[p] \in {"cleanup_stat", "cleanup_rm"} /\ ret[p] = "stop"

\* The endpoint resolves to a live listener: UnixStream::connect succeeds.
EndpointLive == sockFile # 0 /\ Listening(sockFile)

Running(p) == pc[p] \notin {"idle", "exited"}

InitProcs ==
  /\ isDebug \in BOOLEAN
  /\ pc = [p \in Procs |-> "idle"]
  /\ ret = [p \in Procs |-> "none"]
  /\ argv = [p \in Procs |-> <<>>]
  /\ sockFile = 0
  /\ backlog = [p \in Procs |-> <<>>]
  /\ connTo = [p \in Procs |-> 0]
  /\ exitCode = [p \in Procs |-> -1]
  /\ exitPath = [p \in Procs |-> "none"]
  /\ fileAtExit = [p \in Procs |-> 0]
  /\ stopSent = [p \in Procs |-> FALSE]
  /\ bound = [p \in Procs |-> FALSE]

\* No render thread runs yet (Spec leaves _main's loop to SpecRender).
InitRenderIdle ==
  /\ rpc = "none"
  /\ i = 0
  /\ cursor = 0
  /\ data = [alpha |-> DEFAULT_ALPHA, radius |-> DEFAULT_RADIUS]
  /\ views = <<>>
  /\ info = [o \in OutputNames |-> None]
  /\ present = {}
  /\ evq = <<>>
  /\ nEvents = 0
  /\ nSessions = 0
  /\ nCreated = 0
  /\ nDropped = 0
  /\ updatesSinceWake = 0
  /\ wokeAfter = 0
  /\ passCfgs = {}
  /\ snapshot = ARGS_INIT
  /\ stale = FALSE
  /\ exit = FALSE

InitStore ==
  /\ ARGS = [p \in Procs |-> ARGS_INIT]
  /\ FLAG = [p \in Procs |-> FALSE]
  /\ lastArgs = None
  /\ prevARGS = ARGS_INIT
  /\ opaqueSeen = FALSE

\* ------------------------------------------------------------------
\* SpecArgs: set_args on D's store.

InitArgs == InitStore /\ InitProcs /\ InitRenderIdle /\ isDebug = FALSE

\* One call of set_args (main's first call with the parsed command line, or
\* handle_ipc's call with a parsed message).
SetArgs(a) ==
  /\ ARGS' = [ARGS EXCEPT ![D] = set_args(ARGS[D], a)]
  /\ lastArgs' = Some(a)
  /\ prevARGS' = ARGS[D]
  /\ opaqueSeen' = (opaqueSeen \/ a.allow_opaque)
  /\ UNCHANGED <<FLAG, procVars, renderVars>>
  /\ UNCHANGED auxVars

NextArgs == \E a \in DimlandArgs : SetArgs(a)

SpecArgs == InitArgs /\ [][NextArgs]_vars

\* ------------------------------------------------------------------
\* Spec: the launches of the program, racing on the endpoint.

\* process::exit(code) / a panic of the main thread: the process is gone, its
\* listener and the connections it held are closed, the stream it held as a
\* client reaches end of file. `file` is the endpoint path's state then.
ExitWith(p, code, how, file) ==
  /\ pc' = [pc EXCEPT ![p] = "exited"]
  /\ exitCode' = [exitCode EXCEPT ![p] = code]
  /\ exitPath' = [exitPath EXCEPT ![p] = how]
  /\ fileAtExit' = [fileAtExit EXCEPT ![p] = file]
  /\ backlog' = [q \in Procs |->
        IF q = p THEN <<>>
        ELSE [k \in 1 .. Len(backlog[q]) |->
                IF backlog[q][k].cl = p THEN [backlog[q][k] EXCEPT !.eof = TRUE]
                ELSE backlog[q][k]]]

\* The user (or the re-executing parent) starts the program: DimlandArgs::parse,
\* set_args, get_args, ctrlc::set_handler (main, lines 128-138). Process ids
\* are handed out in order.
Launch(p, cl) ==
  /\ pc[p] = "idle"
  /\ \A q \in Procs : q < p => pc[q] # "idle"
  /\ pc' = [pc EXCEPT ![p] = "main"]
  /\ argv' = [argv EXCEPT ![p] = cl]
  /\ ARGS' = [ARGS EXCEPT ![p] = set_args(ARGS[p], try_parse_from(cl).args)]
  /\ UNCHANGED <<renderVars, FLAG, lastArgs, prevARGS, opaqueSeen, isDebug, ret, sockFile,
                 backlog, connTo, exitCode, exitPath, fileAtExit, stopSent, bound>>
  /\ UNCHANGED auxVars

\* UnixStream::connect(socket_path) is Ok: a connection joins the listener's
\* accept queue (lines 142 and 151).
ConnectOk(p) ==
  /\ pc[p] = "main"
  /\ EndpointLive
  /\ Len(backlog[sockFile]) < MaxBacklog
  /\ backlog' = [backlog EXCEPT ![sockFile] =
                   Append(@, [cl |-> p, data |-> None, eof |-> FALSE])]
  /\ connTo' = [connTo EXCEPT ![p] = sockFile]
  /\ pc' = [pc EXCEPT ![p] =
              IF args(p).command = Some("Stop") THEN "stop_write" ELSE "fwd_write"]
  /\ UNCHANGED <<renderVars, argsVars, isDebug, ret, argv, sockFile, exitCode, exitPath,
                 fileAtExit, stopSent, bound>>
  /\ UNCHANGED auxVars

\* Mutant of ProbeFailed: the probe's result is ignored, a launch takes the
\* Err branch also while a daemon answers on the endpoint.
ProbeFailedAlways(p) == TRUE

\* UnixStream::connect(socket_path) is Err: no file, or a file no live
\* listener is bound to.
ProbeFailed(p) == ~EndpointLive

\* The stop invocation found no daemon: `_ => ()`, process::exit(0) (lines 144-146).
StopNoDaemon(p) ==
  /\ pc[p] = "main"
  /\ args(p).command = Some("Stop")
  /\ ProbeFailed(p)
  /\ sockFile' = sockFile
  /\ ExitWith(p, 0, "stop_nodaemon", sockFile)
  /\ UNCHANGED <<renderVars, argsVars, isDebug, ret, argv, connTo, stopSent, bound>>
  /\ UNCHANGED auxVars

\* Mutant of BecomeDaemon: the Err branch takes the daemon's path whatever
\* args.detached and IS_DEBUG_BUILD are.
BecomeDaemonAlways(p) ==
  /\ pc[p] = "main"
  /\ args(p).command # Some("Stop")
  /\ ProbeFailed(p)
  /\ pc' = [pc EXCEPT ![p] = "cleanup_stat"]
  /\ ret' = [ret EXCEPT ![p] = "main"]
  /\ UNCHANGED <<renderVars, argsVars, isDebug, argv, sockFile, backlog, connTo, exitCode,
                 exitPath, fileAtExit, stopSent, bound>>
  /\ UNCHANGED auxVars

\* Err(_) with args.detached || IS_DEBUG_BUILD: this process goes on to
\* become the daemon, starting with cleanup() (lines 160-161).
BecomeDaemon(p) ==
  /\ pc[p] = "main"
  /\ args(p).command # Some("Stop")
  /\ ProbeFailed(p)
  /\ args(p).detached \/ isDebug
  /\ pc' = [pc EXCEPT ![p] = "cleanup_stat"]
  /\ ret' = [ret EXCEPT ![p] = "main"]
  /\ UNCHANGED <<renderVars, argsVars, isDebug, argv, sockFile, backlog, connTo, exitCode,
                 exitPath, fileAtExit, stopSent, bound>>
  /\ UNCHANGED auxVars

\* Err(_) otherwise: spawn the same command line plus "--detached" and
\* process::exit(0) (lines 165-174). The child runs main's prologue at once.
SpawnDetached(p, q) ==
  /\ pc[p] = "main"
  /\ args(p).command # Some("Stop")
  /\ ProbeFailed(p)
  /\ ~(args(p).detached \/ isDebug)
  /\ pc[q] = "idle"
  /\ \A r \in Procs : r < q => pc[r] # "idle"
  /\ argv' = [argv EXCEPT ![q] = argv[p] \o <<"--detached">>]
  /\ ARGS' = [ARGS EXCEPT ![q] =
                set_args(ARGS[q], try_parse_from(argv[p] \o <<"--detached">>).args)]
  /\ pc' = [pc EXCEPT ![p] = "exited", ![q] = "main"]
  /\ exitCode' = [exitCode EXCEPT ![p] = 0]
  /\ exitPath' = [exitPath EXCEPT ![p] = "spawned"]
  /\ fileAtExit' = [fileAtExit EXCEPT ![p] = sockFile]
  /\ UNCHANGED <<renderVars, FLAG, lastArgs, prevARGS, opaqueSeen, isDebug, ret, sockFile,
                 backlog, connTo, stopSent, bound>>
  /\ UNCHANGED auxVars

\* The entry of client p in the accept queue of the process it connected to,
\* with `m` written to it and the stream closed by the client's exit.
Written(p, m) ==
  [q \in Procs |->
     [k \in 1 .. Len(backlog[q]) |->
        IF backlog[q][k].cl = p
        THEN [backlog[q][k] EXCEPT !.data = Some(m), !.eof = TRUE]
        ELSE backlog[q][k]]]

\* stream.write_all(message) is Ok, then process::exit(0) (lines 153-157).
ForwardOk(p) ==
  /\ pc[p] = "fwd_write"
  /\ Listening(connTo[p])
  /\ backlog' = Written(p, join_args(argv[p]))
  /\ pc' = [pc EXCEPT ![p] = "exited"]
  /\ exitCode' = [exitCode EXCEPT ![p] = 0]
  /\ exitPath' = [exitPath EXCEPT ![p] = "forwarded"]
  /\ fileAtExit' = [fileAtExit EXCEPT ![p] = sockFile]
  /\ UNCHANGED <<renderVars, argsVars, isDebug, ret, argv, sockFile, connTo, stopSent, bound>>
  /\ UNCHANGED auxVars

\* stream.write_all(message) is Err (the peer is gone): eprintln!, then
\* process::exit(0) (lines 154-157).
ForwardErr(p) ==
  /\ pc[p] = "fwd_write"
  /\ ~Listening(connTo[p])
  /\ sockFile' = sockFile
  /\ ExitWith(p, 0, "forward_failed", sockFile)
  /\ UNCHANGED <<renderVars, argsVars, isDebug, ret, argv, connTo, stopSent, bound>>
  /\ UNCHANGED auxVars

\* stream.write_all("stop") is Ok: unwrap() passes, process::exit(0)
\* (lines 143-146).
StopOk(p) ==
  /\ pc[p] = "stop_write"
  /\ Listening(connTo[p])
  /\ backlog' = Written(p, <<"stop">>)
  /\ stopSent' = [stopSent EXCEPT ![connTo[p]] = TRUE]
  /\ pc' = [pc EXCEPT ![p] = "exited"]
  /\ exitCode' = [exitCode EXCEPT ![p] = 0]
  /\ exitPath' = [exitPath EXCEPT ![p] = "stop_sent"]
  /\ fileAtExit' = [fileAtExit EXCEPT ![p] = sockFile]
  /\ UNCHANGED <<renderVars, argsVars, isDebug, ret, argv, sockFile, connTo, bound>>
  /\ UNCHANGED auxVars

\* stream.write_all("stop") is Err (the peer is gone): unwrap() panics, the
\* process ends with Rust's panic status 101 (line 143).
StopErr(p) ==
  /\ pc[p] = "stop_write"
  /\ ~Listening(connTo[p])
  /\ sockFile' = sockFile
  /\ ExitWith(p, 101, "stop_failed", sockFile)
  /\ UNCHANGED <<renderVars, argsVars, isDebug, ret, argv, connTo, stopSent, bound>>
  /\ UNCHANGED auxVars

\* cleanup() is over: back to its call site. From main (line 161): the
\* listener thread is spawned and starts with bind. From the bind failure
\* (line 185): process::exit(1). From "stop" (line 210): process::exit(0).
CleanupReturns(p, file) ==
  /\ \/ /\ ret[p] = "main"
        /\ pc' = [pc EXCEPT ![p] = "bind"]
        /\ UNCHANGED <<backlog, exitCode, exitPath, fileAtExit>>
     \/ /\ ret[p] = "bind"
        /\ ExitWith(p, 1, "bind_failed", file)
     \/ /\ ret[p] = "stop"
        /\ ExitWith(p, 0, "stop", file)
  /\ ret' = [ret EXCEPT ![p] = "none"]

\* Mutant of cleanup(): the file is never looked at, cleanup() returns
\* without removing anything.
CleanupStatSkips(p) ==
  /\ pc[p] = "cleanup_stat"
  /\ CleanupReturns(p, sockFile)
  /\ UNCHANGED <<renderVars, argsVars, isDebug, argv, sockFile, connTo, stopSent, bound>>
  /\ UNCHANGED auxVars

\* cleanup(): fs::metadata(socket_path).is_ok() (line 239).
CleanupStat(p) ==
  /\ pc[p] = "cleanup_stat"
  /\ \/ /\ sockFile # 0
        /\ pc' = [pc EXCEPT ![p] = "cleanup_rm"]
        /\ UNCHANGED <<ret, backlog, exitCode, exitPath, fileAtExit>>
     \/ /\ sockFile = 0
        /\ CleanupReturns(p, 0)
  /\ UNCHANGED <<renderVars, argsVars, isDebug, argv, sockFile, connTo, stopSent, bound>>
  /\ UNCHANGED auxVars

\* cleanup(): fs::remove_file(socket_path) (lines 240-243); the file another
\* process removed since the metadata call makes it fail: process::exit(1).
CleanupRemove(p) ==
  /\ pc[p] = "cleanup_rm"
  /\ \/ /\ sockFile # 0
        /\ sockFile' = 0
        /\ CleanupReturns(p, 0)
     \/ /\ sockFile = 0
        /\ sockFile' = 0
        /\ ret' = [ret EXCEPT ![p] = "none"]
        /\ ExitWith(p, 1, "cleanup_failed", 0)
  /\ UNCHANGED <<renderVars, argsVars, isDebug, argv, connTo, stopSent, bound>>
  /\ UNCHANGED auxVars

\* listen_for_ipc: UnixListener::bind (lines 181-188). It fails on a path
\* that exists; then cleanup() and process::exit(1).
Bind(p) ==
  /\ pc[p] = "bind"
  /\ \/ /\ sockFile = 0
        /\ sockFile' = p
        /\ pc' = [pc EXCEPT ![p] = "listen"]
        /\ bound' = [bound EXCEPT ![p] = TRUE]
        /\ UNCHANGED ret
     \/ /\ sockFile # 0
        /\ sockFile' = sockFile
        /\ pc' = [pc EXCEPT ![p] = "cleanup_stat"]
        /\ ret' = [ret EXCEPT ![p] = "bind"]
        /\ UNCHANGED bound
  /\ UNCHANGED <<renderVars, argsVars, isDebug, argv, backlog, connTo, exitCode, exitPath,
                 fileAtExit, stopSent>>
  /\ UNCHANGED auxVars

\* The connection listener.incoming() yields next: the oldest one; read_line
\* returns once its stream is at end of file (no message of the model ends
\* its line before that).
Readable(p) ==
  /\ pc[p] = "listen"
  /\ backlog[p] # <<>>
  /\ Head(backlog[p]).eof

\* The text read_line put in `message` (nothing was written: the empty text).
MessageOf(c) == IF IsSome(c.data) THEN Unwrap(c.data) ELSE <<>>

\* handle_ipc: message == "stop" (lines 209-212): cleanup(), process::exit(0).
HandleStop(p) ==
  /\ Readable(p)
  /\ MessageOf(Head(backlog[p])) = <<"stop">>
  /\ backlog' = [backlog EXCEPT ![p] = Tail(@)]
  /\ pc' = [pc EXCEPT ![p] = "cleanup_stat"]
  /\ ret' = [ret EXCEPT ![p] = "stop"]
  /\ UNCHANGED <<renderVars, argsVars, isDebug, argv, sockFile, connTo, exitCode, exitPath,
                 fileAtExit, stopSent, bound>>
  /\ UNCHANGED auxVars

\* handle_ipc: try_parse_from is Ok (lines 221-222): set_args(args).
HandleUpdate(p) ==
  /\ Readable(p)
  /\ MessageOf(Head(backlog[p])) # <<"stop">>
  /\ LET r == try_parse_from(split_whitespace(MessageOf(Head(backlog[p])))) IN
       /\ r.ok
       /\ ARGS' = [ARGS EXCEPT ![p] = set_args(ARGS[p], r.args)]
       /\ lastArgs' = IF p = D THEN Some(r.args) ELSE lastArgs
       /\ prevARGS' = IF p = D THEN ARGS[D] ELSE prevARGS
       /\ opaqueSeen' = IF p = D THEN opaqueSeen \/ r.args.allow_opaque ELSE opaqueSeen
  /\ backlog' = [backlog EXCEPT ![p] = Tail(@)]
  /\ pc' = [pc EXCEPT ![p] = "notify"]
  /\ updatesSinceWake' = IF p = D /\ updatesSinceWake < 2 THEN updatesSinceWake + 1
                         ELSE updatesSinceWake
  /\ UNCHANGED <<rpc, i, cursor, data, views, info, present, evq, nEvents, nSessions, nCreated, nDropped,
                 wokeAfter, passCfgs>>
  /\ UNCHANGED <<FLAG, isDebug, ret, argv, sockFile, connTo, exitCode, exitPath,
                 fileAtExit, stopSent, bound>>
  /\ stale' = (stale \/ p = D)
  /\ UNCHANGED <<snapshot, exit>>

\* Mutant of the Ok arm: the listener goes back to accept without setting
\* the latch.
NotifyLost(p) ==
  /\ pc[p] = "notify"
  /\ pc' = [pc EXCEPT ![p] = "listen"]
  /\ UNCHANGED <<renderVars, auxVars, FLAG, ARGS, lastArgs, prevARGS, opaqueSeen, isDebug, ret,
                 argv, sockFile, backlog, connTo, exitCode, exitPath, fileAtExit, stopSent,
                 bound>>

\* handle_ipc: *flag_guard = true; cvar.notify_one() (lines 223-226); the
\* stream is dropped and the listener accepts again.
Notify(p) ==
  /\ pc[p] = "notify"
  /\ FLAG' = [FLAG EXCEPT ![p] = TRUE]
  /\ pc' = [pc EXCEPT ![p] = "listen"]
  /\ UNCHANGED <<rpc, i, cursor, data, views, info, present, evq, nEvents, nSessions, nCreated, nDropped,
                 updatesSinceWake, wokeAfter, passCfgs,
                 ARGS, lastArgs, prevARGS, opaqueSeen, isDebug, ret, argv,
                 sockFile, backlog, connTo, exitCode, exitPath, fileAtExit, stopSent, bound>>
  /\ UNCHANGED auxVars

\* Mutant of the Err arm: the message is discarded but the latch is set.
HandleParseErrWake(p) ==
  /\ Readable(p)
  /\ MessageOf(Head(backlog[p])) # <<"stop">>
  /\ ~try_parse_from(split_whitespace(MessageOf(Head(backlog[p])))).ok
  /\ backlog' = [backlog EXCEPT ![p] = Tail(@)]
  /\ FLAG' = [FLAG EXCEPT ![p] = TRUE]
  /\ UNCHANGED <<renderVars, ARGS, lastArgs, prevARGS, opaqueSeen, isDebug, pc, ret, argv,
                 sockFile, connTo, exitCode, exitPath, fileAtExit, stopSent, bound>>
  /\ UNCHANGED auxVars

\* handle_ipc: try_parse_from is Err: `_ => ()` (line 228).
HandleParseErr(p) ==
  /\ Readable(p)
  /\ MessageOf(Head(backlog[p])) # <<"stop">>
  /\ ~try_parse_from(split_whitespace(MessageOf(Head(backlog[p])))).ok
  /\ backlog' = [backlog EXCEPT ![p] = Tail(@)]
  /\ UNCHANGED <<renderVars, argsVars, isDebug, pc, ret, argv, sockFile, connTo, exitCode,
                 exitPath, fileAtExit, stopSent, bound>>
  /\ UNCHANGED auxVars

\* The ctrlc handler on SIGINT/SIGTERM (lines 131-135): process::exit(0) when
\* args.detached || IS_DEBUG_BUILD, nothing otherwise.
Signal(p) ==
  /\ Running(p)
  /\ args(p).detached \/ isDebug
  /\ sockFile' = sockFile
  /\ ret' = [ret EXCEPT ![p] = "none"]
  /\ ExitWith(p, 0, "signal", sockFile)
  /\ UNCHANGED <<renderVars, argsVars, isDebug, argv, connTo, stopSent, bound>>
  /\ UNCHANGED auxVars

Next ==
  \/ \E p \in Procs, cl \in CmdLines : Launch(p, cl)
  \/ \E p \in Procs : ConnectOk(p)
  \/ \E p \in Procs : StopNoDaemon(p)
  \/ \E p \in Procs : BecomeDaemon(p)
  \/ \E p, q \in Procs : SpawnDetached(p, q)
  \/ \E p \in Procs : ForwardOk(p)
  \/ \E p \in Procs : ForwardErr(p)
  \/ \E p \in Procs : StopOk(p)
  \/ \E p \in Procs : StopErr(p)
  \/ \E p \in Procs : CleanupStat(p)
  \/ \E p \in Procs : CleanupRemove(p)
  \/ \E p \in Procs : Bind(p)
  \/ \E p \in Procs : HandleStop(p)
  \/ \E p \in Procs : HandleUpdate(p)
  \/ \E p \in Procs : Notify(p)
  \/ \E p \in Procs : HandleParseErr(p)
  \/ \E p \in Procs : Signal(p)

Init == InitStore /\ InitProcs /\ InitRenderIdle

Spec == Init /\ [][Next]_vars

\* ------------------------------------------------------------------
\* SpecRender: the daemon D from inside. Its listener thread runs the
\* handle_ipc actions above on the messages of clients that connect, write
\* and close; its main thread runs _main's loop; the compositor announces,
\* changes and removes outputs.

\* An output's logical_size is one of two sizes, 1 and 2.

\* The messages a client session of SpecRender delivers.
Messages ==
  { <<"stop">>,
    <<"dimland", "-a", "0.2">>,
    <<"dimland", "-a", "1.0", "-o", "A">>,
    <<"dimland", "--bogus">> }

\* get_args(): a clone of the store, taken under its lock.
\* Mutant: the snapshot is the store before the listener's last update.
get_args_stale(p) == prevARGS

get_args(p) == ARGS[p]

\* u32 values that may pass 2^31 are held as <<high 16 bits, low 16 bits>>.
U16 == 65536

\* a.pow(2) for a u32 a: the wrapped value and whether it passed 2^32 - 1
\* (a debug build panics there, a release build wraps).
pow2(a) ==
  LET ah == a \div U16
      al == a % U16
      bh == al \div 256
      bl == al % 256
      t  == 2 * bh * bl * 256 + bl * bl
      hi == bh * bh + (t \div U16) + 2 * ah * al
  IN [val |-> <<hi % U16, t % U16>>, ov |-> ah > 0]

\* u32 `+` on two such values.
add32(v, w) ==
  LET lo == v[2] + w[2]
      hi == v[1] + w[1] + (lo \div U16)
  IN [val |-> <<hi % U16, lo % U16>>, ov |-> hi >= U16]

\* u32 `>` on two such values.
gt32(v, w) == v[1] > w[1] \/ (v[1] = w[1] /\ v[2] > w[2])

\* dx.pow(2) + dy.pow(2) > corner_radius.pow(2), as one clause of the corner
\* test evaluates it.
corner(dx, dy, r) ==
  LET sx == pow2(dx)
      sy == pow2(dy)
      sm == add32(sx.val, sy.val)
      sr == pow2(r)
  IN [hit |-> gt32(sm.val, sr.val), trap |-> sx.ov \/ sy.ov \/ sm.ov \/ sr.ov]

\* `x > a - corner_radius` on u32: a - corner_radius goes below zero when
\* corner_radius > a; wrapped it is at least 2^31, above every coordinate.
gt_sub(x, a, r) ==
  [hit |-> a >= r /\ x > a - r, trap |-> a < r]

\* The corner test of one pixel (lines 355-369): the four clauses of the
\* `||` chain in order, each `&&` left to right, evaluation stopping as the
\* code's does. black: the pixel is set to 0xFF000000; trap: some
\* subtraction or squaring evaluated on the way left the u32 range.
pixel(x, y, width, height, r) ==
  LET c1 == IF x < r /\ y < r THEN corner(r - x, r - y, r)
            ELSE [hit |-> FALSE, trap |-> FALSE]
      xw == gt_sub(x, width, r)
      c2 == IF xw.hit /\ y < r THEN corner(x - (width - r), r - y, r)
            ELSE [hit |-> FALSE, trap |-> FALSE]
      yh == IF x < r THEN gt_sub(y, height, r) ELSE [hit |-> FALSE, trap |-> FALSE]
      c3 == IF yh.hit THEN corner(r - x, y - (height - r), r)
            ELSE [hit |-> FALSE, trap |-> FALSE]
      yh4 == IF xw.hit THEN gt_sub(y, height, r) ELSE [hit |-> FALSE, trap |-> FALSE]
      c4 == IF yh4.hit THEN corner(x - (width - r), y - (height - r), r)
            ELSE [hit |-> FALSE, trap |-> FALSE]
  IN IF c1.hit THEN [black |-> TRUE, trap |-> c1.trap]
     ELSE IF c2.hit THEN [black |-> TRUE, trap |-> c1.trap \/ xw.trap \/ c2.trap]
     ELSE IF c3.hit THEN [black |-> TRUE,
                          trap |-> c1.trap \/ xw.trap \/ c2.trap \/ yh.trap \/ c3.trap]
     ELSE [black |-> c4.hit,
           trap |-> c1.trap \/ xw.trap \/ c2.trap \/ yh.trap \/ c3.trap
                      \/ yh4.trap \/ c4.trap]

\* create_buffer(alpha, radius, qh, width, height, shm): what the buffer was
\* made from, the pixels (index = y * width + x) the corner test set to
\* opaque black, and whether the arithmetic of some pixel left the u32 range.
create_buffer(alpha, radius, width, height) ==
  LET px == [n \in 0 .. width * height - 1 |->
               pixel(n % width, n \div width, width, height, radius)]
  IN [alpha |-> alpha, radius |-> radius, width |-> width, height |-> height,
      black |-> {n \in DOMAIN px : px[n].black},
      trap |-> \E n \in DOMAIN px : px[n].trap]

\* DimlandData::create_view followed by DimlandView::new.
create_view(o) ==
  LET render == IF IsSome(info'[o]) THEN
                   (IF IsSome(get_args(D).output)
                    THEN Unwrap(info'[o]).name = Unwrap(get_args(D).output) ELSE TRUE)
                ELSE TRUE
      alpha == IF render THEN data.alpha ELSE 0
      radius == IF render THEN data.radius ELSE 0
      size == IF IsSome(info'[o]) THEN Unwrap(info'[o]).size ELSE 0
  IN [output |-> o, layer |-> nCreated + 1, size |-> size,
      first_configure |-> TRUE, width |-> 0, height |-> 0,
      buffer |-> create_buffer(alpha, radius, size, size),
      attached |-> None, commits |-> 0, dest |-> None]

\* DimlandView::draw: nothing unless first_configure; else damage, attach
\* the buffer, commit.
draw(v) ==
  IF ~v.first_configure THEN v
  ELSE [v EXCEPT !.attached = Some(v.buffer), !.commits = @ + 1]

\* Mutant of configure: the view is drawn at every configure event.
configure_redraws(v, new_size) ==
  [draw([v EXCEPT !.width = new_size, !.height = new_size,
                  !.dest = Some(<<new_size, new_size>>),
                  !.first_configure = TRUE])
     EXCEPT !.first_configure = FALSE]

\* LayerShellHandler::configure on the view of the layer (lines 554-563).
configure(v, new_size) ==
  LET sized == [v EXCEPT !.width = new_size, !.height = new_size,
                         !.dest = Some(<<new_size, new_size>>)]
  IN IF sized.first_configure
     THEN [draw(sized) EXCEPT !.first_configure = FALSE]
     ELSE sized

\* Position of the first view of output o in vs, 0 when there is none
\* (self.views.iter_mut().find(|v| v.output == o)).
RECURSIVE find_from(_, _, _)
find_from(vs, o, n) ==
  IF n > Len(vs) THEN 0
  ELSE IF vs[n].output = o THEN n
  ELSE find_from(vs, o, n + 1)

find(vs, o) == find_from(vs, o, 1)

\* Mutant of update_output: the replacement is pushed, the old view stays.
update_views_push(vs, v) == Append(vs, v)

\* update_output: `*view = new_view` on the view of the same output, if any.
update_views(vs, v) ==
  IF find(vs, v.output) = 0 THEN vs
  ELSE [vs EXCEPT ![find(vs, v.output)] = v]

\* output_destroyed: self.views.retain(|v| v.output != output).
retain(vs, o) == SelectSeq(vs, LAMBDA v : v.output # o)

RenderRuns == Running(D) /\ rpc # "none"

\* The registry holds at most one view per output name.
MaxViews == Cardinality(OutputNames)

\* A client connects to D, writes m and closes (a launch that forwards, a
\* stop invocation, or any other program that writes to the socket).
ClientSession(m) ==
  /\ Listening(D)
  /\ sockFile = D
  /\ Len(backlog[D]) < MaxBacklog
  /\ backlog' = [backlog EXCEPT ![D] = Append(@, [cl |-> 0, data |-> Some(m), eof |-> TRUE])]
  /\ stopSent' = [stopSent EXCEPT ![D] = @ \/ m = <<"stop">>]
  /\ nSessions < MaxSessions
  /\ nSessions' = nSessions + 1
  /\ UNCHANGED <<rpc, i, cursor, data, views, info, present, evq, nEvents, nCreated,
                 nDropped, updatesSinceWake, wokeAfter, passCfgs>>
  /\ UNCHANGED <<argsVars, isDebug, pc, ret, argv, sockFile, connTo,
                 exitCode, exitPath, fileAtExit, bound>>
  /\ UNCHANGED auxVars

\* The compositor announces a new output (a wl_output global with its name
\* and logical size; an output starts at the first size).
OutputAdded(o) ==
  /\ Running(D)
  /\ nEvents < MaxEvents
  /\ o \notin present
  /\ present' = present \cup {o}
  /\ evq' = Append(evq, [type |-> "new_output", output |-> o, size |-> 1, layer |-> 0])
  /\ nEvents' = nEvents + 1
  /\ UNCHANGED <<rpc, i, cursor, data, views, info, nSessions, nCreated, nDropped,
                 updatesSinceWake, wokeAfter, passCfgs, argsVars, procVars>>
  /\ UNCHANGED auxVars

\* The size the compositor holds for output o: the one of its last event.
RECURSIVE last_size(_, _, _)
last_size(q, o, dflt) ==
  IF q = <<>> THEN dflt
  ELSE last_size(Tail(q), o, IF Head(q).output = o THEN Head(q).size ELSE dflt)

\* The compositor changes an output it has announced (new geometry: the
\* other size).
OutputChanged(o) ==
  /\ Running(D)
  /\ nEvents < MaxEvents
  /\ o \in present
  /\ evq' = Append(evq, [type |-> "update_output", output |-> o, layer |-> 0,
                          size |-> 3 - last_size(evq, o, IF IsSome(info[o])
                                                         THEN Unwrap(info[o]).size ELSE 1)])
  /\ nEvents' = nEvents + 1
  /\ UNCHANGED <<rpc, i, cursor, data, views, info, present, nSessions, nCreated, nDropped,
                 updatesSinceWake, wokeAfter, passCfgs, argsVars, procVars>>
  /\ UNCHANGED auxVars

\* The compositor removes an output.
OutputRemoved(o) ==
  /\ Running(D)
  /\ nEvents < MaxEvents
  /\ o \in present
  /\ present' = present \ {o}
  /\ evq' = Append(evq, [type |-> "output_destroyed", output |-> o, size |-> 0, layer |-> 0])
  /\ nEvents' = nEvents + 1
  /\ UNCHANGED <<rpc, i, cursor, data, views, info, nSessions, nCreated, nDropped,
                 updatesSinceWake, wokeAfter, passCfgs, argsVars, procVars>>
  /\ UNCHANGED auxVars

\* The compositor configures the layer surface of a view (after the commit
\* of create_view, or again later): the size is the one set_size asked for.
ConfigureSent(n) ==
  /\ RenderRuns
  /\ n \in 1 .. Len(views)
  /\ nEvents < MaxEvents
  /\ nEvents' = nEvents + 1
  /\ evq' = Append(evq, [type |-> "configure", output |-> "-", size |-> views[n].size,
                          layer |-> views[n].layer])
  /\ UNCHANGED <<rpc, i, cursor, data, views, info, present, nSessions, nCreated,
                 nDropped, updatesSinceWake, wokeAfter, passCfgs, auxVars,
                 argsVars, procVars>>

\* The compositor closes the layer surface of a view.
ClosedSent(n) ==
  /\ RenderRuns
  /\ n \in 1 .. Len(views)
  /\ ~exit
  /\ \A e \in 1 .. Len(evq) : evq[e].type # "closed"
  /\ nEvents < MaxEvents
  /\ nEvents' = nEvents + 1
  /\ evq' = Append(evq, [type |-> "closed", output |-> "-", size |-> 0,
                          layer |-> views[n].layer])
  /\ UNCHANGED <<rpc, i, cursor, data, views, info, present, nSessions, nCreated,
                 nDropped, updatesSinceWake, wokeAfter, passCfgs, auxVars,
                 argsVars, procVars>>

\* event_queue.roundtrip dispatches the oldest pending event.
Dispatching(type) ==
  /\ RenderRuns
  /\ rpc = "roundtrip"
  /\ evq # <<>>
  /\ Head(evq).type = type
  /\ evq' = Tail(evq)

\* create_buffer's arithmetic left the u32 range in a build with overflow
\* checks (debug): the main thread panics, the process ends with status 101
\* and nothing removes the endpoint file.
BufferPanic ==
  /\ ExitWith(D, 101, "panic", sockFile)
  /\ UNCHANGED <<isDebug, ret, argv, sockFile, connTo, stopSent, bound>>

\* OutputHandler::new_output: self.views.push(self.create_view(qh, output)).
NewOutput ==
  /\ Dispatching("new_output")
  /\ info' = [info EXCEPT ![Head(evq).output] =
                 Some([name |-> Head(evq).output, size |-> Head(evq).size])]
  /\ IF isDebug /\ create_view(Head(evq).output).buffer.trap
     THEN BufferPanic /\ UNCHANGED <<views, nCreated>>
     ELSE /\ views' = Append(views, create_view(Head(evq).output))
          /\ nCreated' = nCreated + 1
          /\ UNCHANGED procVars
  /\ UNCHANGED <<rpc, i, cursor, data, present, nEvents, nSessions, nDropped,
                 updatesSinceWake, wokeAfter, passCfgs, argsVars>>
  /\ UNCHANGED auxVars

\* OutputHandler::update_output: the view built replaces the one of the same
\* output; the value it replaces, or the new view when none matches, is dropped.
UpdateOutput ==
  /\ Dispatching("update_output")
  /\ info' = [info EXCEPT ![Head(evq).output] =
                 Some([name |-> Head(evq).output, size |-> Head(evq).size])]
  /\ IF isDebug /\ create_view(Head(evq).output).buffer.trap
     THEN BufferPanic /\ UNCHANGED <<views, nCreated, nDropped>>
     ELSE /\ views' = update_views(views, create_view(Head(evq).output))
          /\ nCreated' = nCreated + 1
          /\ nDropped' = nDropped + (Len(views) + 1 - Len(views'))
          /\ UNCHANGED procVars
  /\ UNCHANGED <<rpc, i, cursor, data, present, nEvents, nSessions,
                 updatesSinceWake, wokeAfter, passCfgs, argsVars>>
  /\ UNCHANGED auxVars

\* OutputHandler::output_destroyed: retain drops the views of the output
\* (Drop destroys the viewport and the buffer of each).
OutputDestroyed ==
  /\ Dispatching("output_destroyed")
  /\ info' = [info EXCEPT ![Head(evq).output] = None]
  /\ views' = retain(views, Head(evq).output)
  /\ nDropped' = nDropped + (Len(views) - Len(views'))
  /\ UNCHANGED <<rpc, i, cursor, data, present, nEvents, nSessions, nCreated,
                 updatesSinceWake, wokeAfter, passCfgs, argsVars, procVars>>
  /\ UNCHANGED auxVars

\* Position of the view of layer l in vs, 0 when there is none
\* (self.views.iter_mut().find(|view| &view.layer == layer)).
find_layer(vs, l) ==
  IF \E n \in 1 .. Len(vs) : vs[n].layer = l
  THEN CHOOSE n \in 1 .. Len(vs) : vs[n].layer = l
  ELSE 0

\* LayerShellHandler::configure (lines 542-564): return when no view has the
\* layer.
Configure ==
  /\ Dispatching("configure")
  /\ views' = IF find_layer(views, Head(evq).layer) = 0 THEN views
              ELSE [views EXCEPT ![find_layer(views, Head(evq).layer)] =
                      configure(@, Head(evq).size)]
  /\ UNCHANGED <<rpc, i, cursor, data, info, present, nEvents, nSessions, nCreated, nDropped,
                 updatesSinceWake, wokeAfter, passCfgs, auxVars, argsVars, procVars>>

\* LayerShellHandler::closed: self.exit = true (lines 533-540).
Closed ==
  /\ Dispatching("closed")
  /\ exit' = TRUE
  /\ UNCHANGED <<rpc, i, cursor, data, views, info, present, nEvents, nSessions, nCreated,
                 nDropped, updatesSinceWake, wokeAfter, passCfgs, snapshot, stale,
                 argsVars, procVars>>

\* roundtrip returns with the queue drained: `if i > 10` (lines 275-283).
RoundtripDone ==
  /\ RenderRuns
  /\ rpc = "roundtrip"
  /\ evq = <<>>
  /\ IF i > WARMUP
     THEN rpc' = "block" /\ i' = i
     ELSE rpc' = "roundtrip" /\ i' = i + 1
  /\ UNCHANGED <<cursor, data, views, info, present, evq, nEvents, nSessions, nCreated, nDropped,
                 updatesSinceWake, wokeAfter, passCfgs, argsVars, procVars>>
  /\ UNCHANGED auxVars

\* block_until_event: the wait ends with the latch true; *flag_guard = false.
Wake ==
  /\ RenderRuns
  /\ rpc = "block"
  /\ FLAG[D]
  /\ FLAG' = [FLAG EXCEPT ![D] = FALSE]
  /\ rpc' = "get_args"
  /\ wokeAfter' = updatesSinceWake
  /\ updatesSinceWake' = 0
  /\ passCfgs' = {}
  /\ UNCHANGED <<i, cursor, data, views, info, present, evq, nEvents, nSessions, nCreated,
                 nDropped, ARGS, lastArgs, prevARGS, opaqueSeen, procVars>>
  /\ UNCHANGED auxVars

\* _main: new_args = get_args(); data.alpha, data.radius (lines 277-279).
FetchArgs ==
  /\ RenderRuns
  /\ rpc = "get_args"
  /\ data' = [alpha |-> IF IsSome(get_args(D).alpha) THEN Unwrap(get_args(D).alpha)
                         ELSE DEFAULT_ALPHA,
               radius |-> IF IsSome(get_args(D).radius) THEN Unwrap(get_args(D).radius)
                          ELSE DEFAULT_RADIUS]
  /\ rpc' = "rerender"
  /\ cursor' = 1
  /\ UNCHANGED <<i, views, info, present, evq, nEvents, nSessions, nCreated, nDropped,
                 updatesSinceWake, wokeAfter, passCfgs, argsVars, procVars>>
  /\ snapshot' = get_args(D)
  /\ stale' = FALSE
  /\ UNCHANGED exit

\* rerender, one view of the loop (lines 471-493): get_args() for the filter;
\* a selected view gets a new buffer at its stored size, first_configure set,
\* and is drawn.
RerenderView ==
  /\ RenderRuns
  /\ rpc = "rerender"
  /\ cursor <= Len(views)
  /\ LET v == views[cursor]
         hit == IsSome(info[v.output]) /\
                (IF IsSome(get_args(D).output)
                 THEN Unwrap(info[v.output]).name = Unwrap(get_args(D).output)
                 ELSE TRUE)
         buffer == create_buffer(data.alpha, data.radius, v.width, v.height)
     IN IF hit /\ isDebug /\ buffer.trap
        THEN BufferPanic /\ UNCHANGED <<views, passCfgs, cursor>>
        ELSE /\ views' = IF hit
                         THEN [views EXCEPT ![cursor] =
                                 draw([v EXCEPT !.buffer = buffer,
                                                !.first_configure = TRUE])]
                         ELSE views
             /\ passCfgs' = IF hit
                            THEN passCfgs \cup {[alpha |-> Some(data.alpha),
                                                 radius |-> Some(data.radius),
                                                 output |-> get_args(D).output]}
                            ELSE passCfgs
             /\ cursor' = cursor + 1
             /\ UNCHANGED procVars
  /\ UNCHANGED <<rpc, i, data, info, present, evq, nEvents, nSessions, nCreated, nDropped,
                 updatesSinceWake, wokeAfter, argsVars>>
  /\ UNCHANGED auxVars

\* rerender returns; the loop goes back to roundtrip.
RerenderDone ==
  /\ RenderRuns
  /\ rpc = "rerender"
  /\ cursor > Len(views)
  /\ rpc' = "roundtrip"
  /\ UNCHANGED <<i, cursor, data, views, info, present, evq, nEvents, nSessions, nCreated,
                 nDropped, updatesSinceWake, wokeAfter, passCfgs, argsVars, procVars>>
  /\ UNCHANGED auxVars

\* D is the daemon: it has bound the endpoint, its listener thread accepts,
\* and _main has built DimlandData from the store and enters its loop.
InitRender ==
  /\ isDebug = FALSE
  /\ pc = [p \in Procs |-> IF p = D THEN "listen" ELSE "idle"]
  /\ ret = [p \in Procs |-> "none"]
  /\ argv = [p \in Procs |-> IF p = D THEN <<"dimland", "--detached">> ELSE <<>>]
  /\ sockFile = D
  /\ backlog = [p \in Procs |-> <<>>]
  /\ connTo = [p \in Procs |-> 0]
  /\ exitCode = [p \in Procs |-> -1]
  /\ exitPath = [p \in Procs |-> "none"]
  /\ fileAtExit = [p \in Procs |-> 0]
  /\ stopSent = [p \in Procs |-> FALSE]
  /\ bound = [p \in Procs |-> p = D]
  /\ ARGS = [p \in Procs |->
               IF p = D THEN set_args(ARGS_INIT, try_parse_from(<<"dimland", "--detached">>).args)
               ELSE ARGS_INIT]
  /\ FLAG = [p \in Procs |-> FALSE]
  /\ lastArgs = None
  /\ prevARGS = ARGS_INIT
  /\ opaqueSeen = FALSE
  /\ rpc = "roundtrip"
  /\ i = 0
  /\ cursor = 0
  /\ data = [alpha |-> DEFAULT_ALPHA, radius |-> DEFAULT_RADIUS]
  /\ views = <<>>
  /\ info = [o \in OutputNames |-> None]
  /\ present = {}
  /\ evq = <<>>
  /\ nEvents = 0
  /\ nSessions = 0
  /\ nCreated = 0
  /\ nDropped = 0
  /\ updatesSinceWake = 0
  /\ wokeAfter = 0
  /\ passCfgs = {}
  /\ snapshot = set_args(ARGS_INIT, try_parse_from(<<"dimland", "--detached">>).args)
  /\ stale = FALSE
  /\ exit = FALSE

NextRender ==
  \/ \E m \in Messages : ClientSession(m)
  \/ HandleStop(D)
  \/ HandleUpdate(D)
  \/ Notify(D)
  \/ HandleParseErr(D)
  \/ CleanupStat(D)
  \/ CleanupRemove(D)
  \/ \E o \in OutputNames : OutputAdded(o)
  \/ \E o \in OutputNames : OutputChanged(o)
  \/ \E o \in OutputNames : OutputRemoved(o)
  \/ \E n \in 1 .. MaxViews : ConfigureSent(n)
  \/ \E n \in 1 .. MaxViews : ClosedSent(n)
  \/ NewOutput
  \/ UpdateOutput
  \/ OutputDestroyed
  \/ Configure
  \/ Closed
  \/ RoundtripDone
  \/ Wake
  \/ FetchArgs
  \/ RerenderView
  \/ RerenderDone

SpecRender == InitRender /\ [][NextRender]_vars

\* ------------------------------------------------------------------
\* Claims on set_args (checked under SpecArgs).

\* The update the last set_args applied.
Applied == Unwrap(lastArgs)

\* C2: set_args keeps the stored opacity when the update carries none and
\* the stored radius when the update carries none; a radius the update
\* carries replaces the stored one, and so does an opacity it carries (one
\* within the clamp of C4, such as 0.2): stored {alpha 0.5, radius 0} merged
\* with an update holding only alpha 0.2 gives {alpha 0.2, radius 0}.
C2_MergeKeepsAbsent ==
  IsSome(lastArgs) =>
    /\ Applied.alpha = None => ARGS[D].alpha = prevARGS.alpha
    /\ Applied.radius = None => ARGS[D].radius = prevARGS.radius
    /\ IsSome(Applied.radius) => ARGS[D].radius = Applied.radius
    /\ (IsSome(Applied.alpha) /\ ~FGt(Unwrap(Applied.alpha), ALPHA_MAX))
         => ARGS[D].alpha = Applied.alpha
    /\ (prevARGS.alpha = Some(5) /\ prevARGS.radius = Some(0)
         /\ Applied.alpha = Some(2) /\ Applied.radius = None)
         => (ARGS[D].alpha = Some(2) /\ ARGS[D].radius = Some(0))

\* C2's case: a radius stored by an earlier update survives an update that
\* holds only an opacity.
C2_Witness ==
  /\ IsSome(lastArgs)
  /\ Applied.alpha = Some(2)
  /\ Applied.radius = None
  /\ prevARGS.alpha = Some(10)
  /\ prevARGS.radius = Some(3)
  /\ ARGS[D].alpha = Some(2)
  /\ ARGS[D].radius = Some(3)

\* C3: set_args replaces the stored output name, command and detached flag
\* by the update's values, whatever was stored: an update naming no output
\* resets a stored output filter to None.
C3_AlwaysReplaced ==
  IsSome(lastArgs) =>
    /\ ARGS[D].output = Applied.output
    /\ ARGS[D].command = Applied.command
    /\ ARGS[D].detached = Applied.detached

\* C3's case: an output filter was stored, the update named none (it set
\* only a radius), and the store holds no output filter any more.
C3_Witness ==
  /\ IsSome(lastArgs)
  /\ prevARGS.output = Some("A")
  /\ prevARGS.detached
  /\ Applied.output = None
  /\ Applied.radius = Some(3)
  /\ ARGS[D].output = None
  /\ ~ARGS[D].detached

\* C4: an update carrying an opacity stores min(opacity, 0.9) without
\* --allow-opaque and the opacity itself with it (1.0 stores 0.9 without the
\* flag and 1.0 with it); and while no applied update carried --allow-opaque
\* the stored opacity is at most 0.9.
C4_ClampMin ==
  /\ (IsSome(lastArgs) /\ IsSome(Applied.alpha)) =>
        ARGS[D].alpha = IF Applied.allow_opaque THEN Applied.alpha
                     ELSE Some(FMin(Unwrap(Applied.alpha), ALPHA_MAX))
  /\ ~opaqueSeen => FLe(Unwrap(ARGS[D].alpha), ALPHA_MAX)

\* ------------------------------------------------------------------
\* Claims on the launches (checked under Spec).

\* A launch that is not a stop, about to probe the endpoint.
Probing(p) == pc[p] = "main" /\ args(p).command # Some("Stop")

\* The connection of client p in the accept queue of the process it reached.
EntryOf(p) ==
  {c \in {backlog[connTo[p]][k] : k \in 1 .. Len(backlog[connTo[p]])} : c.cl = p}

\* C1: while a daemon is alive and listening on the endpoint, a launch that
\* is not a stop connects (it neither cleans up nor binds nor spawns), leaves
\* the endpoint to the daemon that holds it, has its command line in the
\* daemon's accept queue as one message once it has written it, never
\* listens itself and exits 0.
C1_SingleInstance ==
  /\ [][\A p \in Procs :
          (Probing(p) /\ EndpointLive /\ pc'[p] # "main") =>
             /\ sockFile' = sockFile
             /\ \/ pc'[p] = "fwd_write" /\ connTo'[p] = sockFile
                \/ pc'[p] = "exited" /\ exitPath'[p] = "signal"]_vars
  /\ [](\A p \in Procs :
          (connTo[p] # 0 /\ args(p).command # Some("Stop")) =>
             /\ ~bound[p]
             /\ ~Listening(p)
             /\ sockFile # p
             /\ pc[p] = "exited" => exitCode[p] = 0
             /\ (pc[p] = "exited" /\ exitPath[p] = "forwarded" /\ Listening(connTo[p]))
                  => \A c \in EntryOf(p) : c.data = Some(join_args(argv[p])))

\* C1's case: a daemon holds the endpoint and listens, and a launch that
\* found it there has forwarded its command line and exited 0; its message
\* is in the daemon's accept queue.
C1_Witness ==
  \E d, p \in Procs :
    /\ d # p
    /\ sockFile = d
    /\ Listening(d)
    /\ connTo[p] = d
    /\ pc[p] = "exited"
    /\ exitPath[p] = "forwarded"
    /\ exitCode[p] = 0
    /\ \E c \in EntryOf(p) : c.data = Some(argv[p])

\* C5: a stop message written to a live daemon ends with that daemon
\* terminated with exit code 0 and the endpoint file it bound removed.
C5_StopRemovesEndpoint ==
  \A p \in Procs :
    (stopSent[p] /\ pc[p] = "exited") => (exitCode[p] = 0 /\ sockFile # p)

\* C9: every invocation that does not become the daemon exits with code 0: a
\* stop invocation, and an invocation that connected to a daemon, also when
\* its write to the socket failed.
C9_ClientsExitZero ==
  \A p \in Procs :
    (pc[p] = "exited" /\ (args(p).command = Some("Stop") \/ connTo[p] # 0))
      => exitCode[p] = 0

\* C10: when the daemon has exited through a stop message or through its
\* signal handler, the endpoint file does not exist.
C10_EndpointGoneAtExit ==
  \A p \in Procs :
    (pc[p] = "exited" /\ bound[p] /\ exitPath[p] \in {"stop", "signal"})
      => fileAtExit[p] = 0

\* ------------------------------------------------------------------
\* Claims on the daemon's threads (checked under SpecRender).

\* What a pass renders from a store value: opacity and radius with their
\* defaults, and the output filter.
Rendered(store) ==
  [alpha |-> Some(IF IsSome(store.alpha) THEN Unwrap(store.alpha) ELSE DEFAULT_ALPHA),
   radius |-> Some(IF IsSome(store.radius) THEN Unwrap(store.radius) ELSE DEFAULT_RADIUS),
   output |-> store.output]


\* C6: when two or more updates were applied to the store before the render
\* thread woke from block_until_event (and none since), every view the pass
\* after that wake has rendered was rendered with the latest merged
\* configuration; none with the store as it was before the last update.
C6_PassSeesLatest ==
  (wokeAfter >= 2 /\ updatesSinceWake = 0 /\ rpc = "rerender")
     => passCfgs \subseteq {Rendered(ARGS[D])}

\* Two updates with different opacities were applied before the wake and the
\* pass has rendered a view.
C6_Witness ==
  /\ wokeAfter = 2
  /\ updatesSinceWake = 0
  /\ rpc = "rerender"
  /\ passCfgs # {}
  /\ Rendered(prevARGS) # Rendered(ARGS[D])

\* The outputs the callbacks have announced and not removed.
Announced == {o \in OutputNames : IsSome(info[o])}

ViewsOf(vs, o) == {n \in 1 .. Len(vs) : vs[n].output = o}

\* C7: after any sequence of new_output, update_output and output_destroyed
\* callbacks the registry holds exactly one view for each announced output
\* and none for a removed one; every view no longer in the registry has been
\* dropped; new_output appends one view, update_output replaces a view in
\* place keeping the number and the order of the views, output_destroyed
\* removes exactly the view of its output.
C7_OneViewPerOutput ==
  /\ [](/\ \A o \in OutputNames :
             Cardinality(ViewsOf(views, o)) = IF o \in Announced THEN 1 ELSE 0
        /\ nCreated - nDropped = Len(views))
  /\ [][/\ (NewOutput =>
              (/\ Len(views') = Len(views) + 1
               /\ SubSeq(views', 1, Len(views)) = views
               /\ views'[Len(views')].output = Head(evq).output
               /\ nDropped' = nDropped))
         /\ (UpdateOutput =>
              (/\ Len(views') = Len(views)
               /\ \A n \in 1 .. Len(views) :
                     /\ views'[n].output = views[n].output
                     /\ (views[n].output = Head(evq).output) \/ (views'[n] = views[n])
               /\ nDropped' = nDropped + 1))
         /\ (OutputDestroyed =>
              (/\ views' = SelectSeq(views, LAMBDA v : v.output # Head(evq).output)
               /\ Len(views') = Len(views) - 1
               /\ nDropped' = nDropped + 1))]_vars

\* An output was announced, updated (its view now has the second size) and
\* another output was announced after it: each has its one view and the
\* replaced view was dropped.
C7_Witness ==
  /\ Len(views) = 2
  /\ views[1].output = "A"
  /\ views[1].buffer.width = 2
  /\ views[2].output = "B"
  /\ nCreated = 3
  /\ nDropped = 1

\* A step of the listener that discards a message which is neither stop nor
\* a configuration update.
DropsMalformed ==
  /\ Readable(D)
  /\ MessageOf(Head(backlog[D])) # <<"stop">>
  /\ ~try_parse_from(split_whitespace(MessageOf(Head(backlog[D])))).ok
  /\ backlog'[D] = Tail(backlog[D])

\* C8: when the listener discards a message that does not parse, the store
\* and the latch keep their values, the render thread stays where it is, the
\* daemon keeps running and the listener is back at accept.
C8_MalformedDropped ==
  [][DropsMalformed =>
       /\ ARGS' = ARGS
       /\ FLAG' = FLAG
       /\ rpc' = rpc
       /\ data' = data
       /\ views' = views
       /\ exitCode'[D] = -1
       /\ sockFile' = sockFile
       /\ pc'[D] = "listen"]_vars

\* Two messages that do not parse were delivered and discarded one after the
\* other: no update was ever applied, the render thread is still blocked with
\* the latch clear, and the listener accepts.
C8_Witness ==
  /\ nSessions = 2
  /\ backlog[D] = <<>>
  /\ ~stopSent[D]
  /\ lastArgs = None
  /\ rpc = "block"
  /\ ~FLAG[D]
  /\ Listening(D)

\* ------------------------------------------------------------------
\* Claims on the launch that finds no daemon (checked under Spec).

\* p is on the daemon's path of main's Err branch: cleanup, the listener
\* thread, _main.
OnDaemonPath(p) ==
  pc[p] \in {"cleanup_stat", "cleanup_rm", "bind", "listen", "notify"}

\* A launch of a release build without --detached whose probe fails now.
PlainProbeFails(p) ==
  /\ pc[p] = "main"
  /\ args(p).command # Some("Stop")
  /\ ~EndpointLive
  /\ ~args(p).detached
  /\ ~isDebug

\* C12: a release-build launch without --detached whose probe fails leaves
\* main by exiting 0 with exactly one new process started, whose command
\* line is its own plus "--detached"; it never binds and is never on the
\* daemon's path; every process that cleans up, binds or listens has the
\* detached flag or is a debug build.
C12_PlainLaunchSpawns ==
  /\ [][\A p \in Procs :
          (PlainProbeFails(p) /\ pc'[p] # "main") =>
             /\ pc'[p] = "exited"
             /\ exitCode'[p] = 0
             /\ sockFile' = sockFile
             /\ Cardinality({q \in Procs : pc[q] = "idle" /\ pc'[q] # "idle"}) = 1
             /\ \A q \in Procs :
                  (pc[q] = "idle" /\ pc'[q] # "idle") =>
                     (pc'[q] = "main" /\ argv'[q] = argv[p] \o <<"--detached">>)]_vars
  /\ [](\A p \in Procs :
          /\ (OnDaemonPath(p) \/ bound[p]) => (args(p).detached \/ isDebug)
          /\ (Running(p) /\ ~args(p).detached /\ ~isDebug) => (~bound[p] /\ sockFile # p))

\* C12's case: a launch without --detached found no daemon, exited 0 without
\* binding, and the child it started with "--detached" appended is the
\* daemon listening on the endpoint.
C12_Witness ==
  \E p, q \in Procs :
    /\ p # q
    /\ pc[p] = "exited"
    /\ exitPath[p] = "spawned"
    /\ exitCode[p] = 0
    /\ ~bound[p]
    /\ ~args(p).detached
    /\ argv[q] = argv[p] \o <<"--detached">>
    /\ sockFile = q
    /\ Listening(q)

\* The processes that hold an open listener.
Daemons == {p \in Procs : Listening(p)}

\* C19: however concurrent launches interleave, at most one process is a
\* listening daemon, and the endpoint file of a listening daemon exists and
\* is the socket that daemon bound.
C19_AtMostOneDaemon ==
  /\ Cardinality(Daemons) <= 1
  /\ \A p \in Daemons : sockFile = p

\* ------------------------------------------------------------------
\* SpecStale: launches that come one at a time, and daemons that are killed
\* without running any of their code (SIGKILL, a crash), which leaves the
\* endpoint file behind.

\* No process is between main's prologue and its listener's accept loop.
NoLaunchInProgress ==
  \A q \in Procs : pc[q] \in {"idle", "exited", "listen", "notify"}

\* A launch that is not a stop, started while no other launch is under way.
\* A launch that will re-execute itself needs a process id for its child.
LaunchAlone(p, cl) ==
  /\ NoLaunchInProgress
  /\ try_parse_from(cl).args.command = None
  /\ p < NProcs \/ try_parse_from(cl).args.detached \/ isDebug
  /\ Launch(p, cl)

\* The daemon is killed: the process ends at once, no handler and no
\* cleanup() runs, the endpoint file stays.
Kill(p) ==
  /\ pc[p] \in {"listen", "notify"}
  /\ sockFile' = sockFile
  /\ ExitWith(p, 137, "killed", sockFile)
  /\ UNCHANGED <<renderVars, argsVars, isDebug, ret, argv, connTo, stopSent, bound>>
  /\ UNCHANGED auxVars

\* The steps process p takes by itself once it is started.
Step(p) ==
  \/ ConnectOk(p)
  \/ ForwardOk(p)
  \/ ForwardErr(p)
  \/ BecomeDaemon(p)
  \/ \E q \in Procs : SpawnDetached(p, q)
  \/ CleanupStat(p)
  \/ CleanupRemove(p)
  \/ Bind(p)
  \/ HandleUpdate(p)
  \/ Notify(p)

NextStale ==
  \/ \E p \in Procs, cl \in CmdLines : LaunchAlone(p, cl)
  \/ \E p \in Procs : Kill(p)
  \/ \E p \in Procs : ConnectOk(p)
  \/ \E p \in Procs : ForwardOk(p)
  \/ \E p \in Procs : ForwardErr(p)
  \/ \E p \in Procs : BecomeDaemon(p)
  \/ \E p, q \in Procs : SpawnDetached(p, q)
  \/ \E p \in Procs : CleanupStat(p)
  \/ \E p \in Procs : CleanupRemove(p)
  \/ \E p \in Procs : Bind(p)
  \/ \E p \in Procs : HandleUpdate(p)
  \/ \E p \in Procs : Notify(p)

\* Every started process keeps being scheduled.
SpecStale ==
  /\ Init
  /\ [][NextStale]_vars
  /\ \A p \in Procs : WF_vars(Step(p))

\* No daemon is alive, the endpoint file a killed daemon bound is still
\* there, and one launch has started.
StaleAndLaunched ==
  /\ Daemons = {}
  /\ sockFile # 0
  /\ exitPath[sockFile] = "killed"
  /\ \E p \in Procs : pc[p] = "main"

\* Exactly one daemon listens, on an endpoint file it bound itself.
OneDaemonListening ==
  \E q \in Procs : Daemons = {q} /\ sockFile = q /\ bound[q]

\* C11: from a state with no live daemon and the stale endpoint file of a
\* killed daemon, a single launch that is not a stop leads to exactly one
\* daemon listening on the endpoint, on a file it bound after the stale one
\* was removed; on the way the launch's probe fails (it never connects) and
\* nobody binds while the stale file is there.
C11_StaleFileRelaunch ==
  /\ StaleAndLaunched ~> OneDaemonListening
  /\ [][StaleAndLaunched =>
          /\ \A p \in Procs : connTo'[p] = connTo[p]
          /\ \A p \in Procs : ~bound[p] => ~bound'[p]]_vars

\* C11's case: a daemon was killed and left its file; the launch after it
\* (or that launch's detached child) is the one daemon listening, on a file
\* of its own, and it never connected to anything.
C11_Witness ==
  \E p, q \in Procs :
    /\ p < q
    /\ exitPath[p] = "killed"
    /\ fileAtExit[p] = p
    /\ Daemons = {q}
    /\ sockFile = q
    /\ connTo[q] = 0

\* ------------------------------------------------------------------
\* Claims on the render pass (checked under SpecRender).

\* C13: every view a render pass has regenerated was regenerated with the
\* opacity, the radius and the output filter of one store record, the
\* snapshot _main took after the wake, also when the listener updates the
\* store while the pass runs.
C13_SingleSnapshot ==
  rpc = "rerender" => passCfgs \subseteq {Rendered(snapshot)}

\* ------------------------------------------------------------------
\* Claims on the views (checked under SpecRender).

\* C15: the buffer of every view has the last logical size the compositor
\* reported for the view's output, whatever output events, configure events
\* and render passes came before.
C15_BufferMatchesOutput ==
  \A n \in 1 .. Len(views) :
    IsSome(info[views[n].output]) =>
      /\ views[n].buffer.width = Unwrap(info[views[n].output]).size
      /\ views[n].buffer.height = Unwrap(info[views[n].output]).size

\* The view the configure event at the head of the queue is for (0: none).
Target == find_layer(views, Head(evq).layer)

\* rerender regenerates the view under its cursor: the toolkit knows the
\* view's output and the store's output filter selects it.
Matches(v) ==
  /\ IsSome(info[v.output])
  /\ IsSome(ARGS[D].output) => Unwrap(info[v.output]).name = Unwrap(ARGS[D].output)

\* C16: a configure event for a view that is pending its first configure
\* stores the new size and viewport destination, attaches and commits the
\* view's buffer once and makes the view configured; one for a configured
\* view stores the size and the destination and neither attaches nor
\* commits; a render pass leaves every view it matches pending, with a
\* regenerated buffer that is the one attached.
C16_ConfigureStateMachine ==
  [][/\ ((Configure /\ Target # 0) =>
          (/\ views'[Target].width = Head(evq).size
           /\ views'[Target].height = Head(evq).size
           /\ views'[Target].dest = Some(<<Head(evq).size, Head(evq).size>>)
           /\ views'[Target].buffer = views[Target].buffer
           /\ ~views'[Target].first_configure
           /\ IF views[Target].first_configure
              THEN /\ views'[Target].attached = Some(views[Target].buffer)
                   /\ views'[Target].commits = views[Target].commits + 1
              ELSE /\ views'[Target].attached = views[Target].attached
                   /\ views'[Target].commits = views[Target].commits
           /\ \A n \in 1 .. Len(views) : n # Target => views'[n] = views[n]))
     /\ ((RerenderView /\ Matches(views[cursor])) =>
          (/\ views'[cursor].first_configure
           /\ views'[cursor].buffer = create_buffer(data.alpha, data.radius,
                                                   views[cursor].width, views[cursor].height)
           /\ views'[cursor].attached = Some(views'[cursor].buffer)
           /\ views'[cursor].commits = views[cursor].commits + 1))]_vars

\* C16's case: one output was announced; its view got its first configure
\* (one attach and commit), then a second one (none), then a render pass
\* regenerated its buffer at the configured size, attached it and left the
\* view pending.
C16_Witness ==
  /\ nEvents = 3
  /\ evq = <<>>
  /\ nCreated = 1
  /\ ~exit
  /\ Len(views) = 1
  /\ views[1].commits = 2
  /\ views[1].first_configure
  /\ views[1].buffer.width = 1
  /\ views[1].dest = Some(<<1, 1>>)
  /\ views[1].attached = Some(views[1].buffer)
  /\ rpc = "roundtrip"

\* C18: once the closed callback has set DimlandData.exit, the loop does
\* not go on: when roundtrip returns, _main neither blocks for the next
\* update nor starts another roundtrip, the process ends.
C18_ClosedStopsLoop ==
  [][(exit /\ RoundtripDone) => pc'[D] = "exited"]_vars

\* ------------------------------------------------------------------
\* SpecRenderFair: the daemon's two threads, both scheduled, with clients
\* that send messages and a compositor that announces outputs.

\* The steps of the main thread (_main's loop and the callback roundtrip
\* dispatches).
RenderStep ==
  \/ NewOutput
  \/ RoundtripDone
  \/ Wake
  \/ FetchArgs
  \/ RerenderView
  \/ RerenderDone

\* The steps of the listener thread.
ListenerStep ==
  \/ HandleStop(D)
  \/ HandleUpdate(D)
  \/ Notify(D)
  \/ HandleParseErr(D)
  \/ CleanupStat(D)
  \/ CleanupRemove(D)

NextRenderFair ==
  \/ \E m \in Messages : ClientSession(m)
  \/ \E o \in OutputNames : OutputAdded(o)
  \/ HandleStop(D)
  \/ HandleUpdate(D)
  \/ Notify(D)
  \/ HandleParseErr(D)
  \/ CleanupStat(D)
  \/ CleanupRemove(D)
  \/ NewOutput
  \/ RoundtripDone
  \/ Wake
  \/ FetchArgs
  \/ RerenderView
  \/ RerenderDone

SpecRenderFair ==
  /\ InitRender
  /\ [][NextRenderFair]_vars
  /\ WF_vars(RenderStep)
  /\ WF_vars(ListenerStep)

\* C14: no wakeup is lost. While the daemon runs, every update the listener
\* writes to the store (in the warm-up, while the thread is blocked, during
\* a pass) is followed by a get_args() of _main that reads it; leaving
\* block_until_event resets the latch and reads nothing yet; the latch is
\* set only by the listener, after the update is in the store.
C14_NoLostWakeup ==
  /\ stale ~> (~stale \/ ~Running(D))
  /\ [][(rpc = "block" /\ rpc' # "block") =>
          (FLAG[D] /\ ~FLAG'[D] /\ rpc' = "get_args" /\ data' = data /\ snapshot' = snapshot)]_vars
  /\ [][(~FLAG[D] /\ FLAG'[D]) => (pc[D] = "notify" /\ ARGS' = ARGS)]_vars
  /\ [](pc[D] = "notify" => (IsSome(lastArgs) /\ ARGS[D] = set_args(prevARGS, Unwrap(lastArgs))))

\* C14's case: an update arrived in the warm-up (the latch was set before
\* the thread first blocked), and the pass after the warm-up read it.
C14_Witness ==
  /\ IsSome(lastArgs)
  /\ nSessions = 1
  /\ i = WARMUP + 1
  /\ ~stale
  /\ ~FLAG[D]
  /\ snapshot = ARGS[D]
  /\ snapshot.alpha = Some(2)
  /\ rpc = "rerender"

\* C17: while the daemon runs, every output event the compositor has sent
\* is eventually dispatched to its callback (and so reflected in the view
\* registry), also after the warm-up and without any control message.
C17_OutputEventsReflected ==
  (evq # <<>>) ~> (evq = <<>> \/ ~Running(D))

\* ------------------------------------------------------------------
\* SpecBuffer: create_buffer under a render pass.

\* The radius a control message "-r <tok>" may spell.
RadiusTokens == {"0", "1", "3", "70000"}

\* The daemon started with the defaults on one output "A"; its layer
\* surface was configured with new_size (w, h); a control message "-r tok"
\* was merged into the store, the thread left block_until_event, read the
\* store, and rerender is about to visit the view.
InitBuffer ==
  /\ isDebug \in BOOLEAN
  /\ pc = [p \in Procs |-> IF p = D THEN "listen" ELSE "idle"]
  /\ ret = [p \in Procs |-> "none"]
  /\ argv = [p \in Procs |-> IF p = D THEN <<"dimland", "--detached">> ELSE <<>>]
  /\ sockFile = D
  /\ backlog = [p \in Procs |-> <<>>]
  /\ connTo = [p \in Procs |-> 0]
  /\ exitCode = [p \in Procs |-> -1]
  /\ exitPath = [p \in Procs |-> "none"]
  /\ fileAtExit = [p \in Procs |-> 0]
  /\ stopSent = [p \in Procs |-> FALSE]
  /\ bound = [p \in Procs |-> p = D]
  /\ FLAG = [p \in Procs |-> FALSE]
  /\ opaqueSeen = FALSE
  /\ \E tok \in RadiusTokens, w \in 0 .. MaxSide, h \in 0 .. MaxSide :
       LET upd == try_parse_from(<<"dimland", "-r", tok>>).args
           old == set_args(ARGS_INIT, try_parse_from(<<"dimland", "--detached">>).args)
           new == set_args(old, upd)
           first == create_buffer(DEFAULT_ALPHA, DEFAULT_RADIUS, 1, 1)
       IN /\ ARGS = [p \in Procs |-> IF p = D THEN new ELSE ARGS_INIT]
          /\ lastArgs = Some(upd)
          /\ prevARGS = old
          /\ snapshot = new
          /\ data = [alpha |-> Unwrap(new.alpha), radius |-> Unwrap(new.radius)]
          /\ views = << [output |-> "A", layer |-> 1, size |-> 1,
                         first_configure |-> FALSE, width |-> w, height |-> h,
                         buffer |-> first, attached |-> Some(first),
                         commits |-> 1, dest |-> Some(<<w, h>>)] >>
  /\ rpc = "rerender"
  /\ i = WARMUP + 1
  /\ cursor = 1
  /\ info = [o \in OutputNames |->
               IF o = "A" THEN Some([name |-> "A", size |-> 1]) ELSE None]
  /\ present = {"A"}
  /\ evq = <<>>
  /\ nEvents = 2
  /\ nSessions = 1
  /\ nCreated = 1
  /\ nDropped = 0
  /\ updatesSinceWake = 0
  /\ wokeAfter = 1
  /\ passCfgs = {}
  /\ stale = FALSE
  /\ exit = FALSE

NextBuffer ==
  \/ RerenderView
  \/ RerenderDone
  \/ RoundtripDone

SpecBuffer == InitBuffer /\ [][NextBuffer]_vars

\* C20: for every width, height and radius (a radius above the width or the
\* height and a 0x0 view included), no subtraction or squaring of
\* create_buffer's corner test leaves 0 .. 2^32 - 1 (so no pass ends in an
\* overflow panic), and with radius 0 no pixel is forced to opaque black.
C20_CornerArithmeticInRange ==
  /\ exitPath[D] # "panic"
  /\ \A n \in 1 .. Len(views) :
       /\ ~views[n].buffer.trap
       /\ (views[n].buffer.radius = 0 => views[n].buffer.black = {})

====
